---- MODULE Spec2Model ----
(***************************************************************************)
(* Credential lifecycle and request authorization of go-agent-manager.     *)
(*                                                                         *)
(* Part I   the request pipeline: KeycloakAuthMiddleware,                  *)
(*          ValidateAccessToken, RBACMiddleware and the route table of     *)
(*          main (specification SpecRequest).                              *)
(***************************************************************************)
EXTENDS Integers, Sequences, FiniteSets, TLC

(***************************************************************************)
(* Bounds of the model.                                                    *)
(***************************************************************************)
\* longest realm_access.roles list the provider's decode answers with
MaxRoles == 2
\* longest required-role list a route group is configured with
MaxRequired == 2

(***************************************************************************)
(* Text.  A Go string is a sequence of one-character strings, so that      *)
(* strings.HasPrefix and strings.TrimPrefix are computed, not assumed.  An *)
(* error message is a sequence of fragments (err.Error() is their          *)
(* concatenation); strings.Contains looks for a fragment.                  *)
(***************************************************************************)
\* variant: the prefix is compared without regard to case (strings.EqualFold)
FoldCase(ch) == IF ch = "B" THEN "b" ELSE ch
HasPrefixFold(s, prefix) ==
    /\ Len(s) >= Len(prefix)
    /\ \A i \in 1..Len(prefix) : FoldCase(s[i]) = FoldCase(prefix[i])

HasPrefix(s, prefix) ==
    /\ Len(s) >= Len(prefix)
    /\ SubSeq(s, 1, Len(prefix)) = prefix

TrimPrefix(s, prefix) ==
    IF HasPrefix(s, prefix) THEN SubSeq(s, Len(prefix) + 1, Len(s)) ELSE s

Contains(msg, fragment) == \E i \in 1..Len(msg) : msg[i] = fragment

BearerPrefix == <<"B", "e", "a", "r", "e", "r", " ">>

\* net/http status codes used by the middleware and the handlers
StatusOK == 200
StatusUnauthorized == 401
StatusForbidden == 403
StatusNotFound == 404
StatusInternalServerError == 500

(***************************************************************************)
(* Inputs of one request.                                                  *)
(***************************************************************************)
\* Authorization header values: absent, two bearer tokens, an empty bearer
\* token, another scheme, a lower-case scheme, a prefix without the space
AuthHeaders ==
    { <<>>,
      BearerPrefix \o <<"t", "1">>,
      BearerPrefix \o <<"t", "2">>,
      BearerPrefix,
      <<"B", "a", "s", "i", "c", " ", "t", "1">>,
      <<"b", "e", "a", "r", "e", "r", " ", "t", "1">>,
      <<"B", "e", "a", "r", "e", "r", "t", "1">> }

\* request paths, as segments
Paths ==
    { <<"api", "admin", "devices">>,
      <<"api", "admin", "users">>,
      <<"api", "status">>,
      <<"index.html">> }

\* dynamically typed JSON values of the decoded claims (interface{})
Absent == [t |-> "absent", v |-> <<>>]
Str(s) == [t |-> "string", v |-> <<s>>]
Num(n) == [t |-> "number", v |-> <<n>>]
List(l) == [t |-> "list", v |-> l]
Map(m) == [t |-> "map", v |-> <<m>>]

RoleNames == {"admin", "viewer"}
RoleElems == {Str(r) : r \in RoleNames} \cup {Num("7")}

SeqsUpTo(S, n) == UNION {[1..k -> S] : k \in 0..n}

\* what claims["realm_access"].(map)["roles"] may hold
RolesValues == {Absent, Str("admin")} \cup {List(l) : l \in SeqsUpTo(RoleElems, MaxRoles)}
\* what claims["realm_access"] may hold
RealmAccessValues ==
    {Absent, Str("admin"), List(<<Str("admin")>>)}
        \cup {Map([roles |-> r]) : r \in RolesValues}
\* what claims["sub"] may hold
SubValues == {Absent, Str("u1"), Num("42")}

ClaimsValues == [sub : SubValues, realm_access : RealmAccessValues]

\* provider / network failures of RetrospectToken and DecodeAccessToken
ProviderErrors == { <<"connection refused">>, <<"context deadline exceeded">> }

NoError == <<>>
ErrTokenNotActive == <<"token is not active">>
ErrSubClaim == <<"sub claim not found or invalid">>
\* ctx.Err() of a cancelled request context (context.Canceled)
ErrContextCanceled == <<"context canceled">>

\* outcomes of kcClient.RetrospectToken
IntrospectResults ==
    {[err |-> e, active |-> FALSE] : e \in ProviderErrors}
        \cup {[err |-> NoError, active |-> a] : a \in BOOLEAN}

\* outcomes of kcClient.DecodeAccessToken
DecodeResults ==
    {[err |-> e, claims |-> [sub |-> Absent, realm_access |-> Absent]] : e \in ProviderErrors}
        \cup {[err |-> NoError, claims |-> c] : c \in ClaimsValues}

\* required-role lists a group may be configured with; main uses <<"admin">>
RequiredRoleLists == SeqsUpTo({"admin", "editor"}, MaxRequired)


(***************************************************************************)
(* State of the request pipeline: one request slot, served step by step.   *)
(* The network calls of ValidateAccessToken are the suspension points.     *)
(***************************************************************************)
VARIABLES
    requiredRoles,    \* argument of RBACMiddleware for the /api/admin group
    rpc,              \* position of the request in the middleware chain
    req,              \* [authHeader, path] of the request being served
    tokenString,      \* local of KeycloakAuthMiddleware
    introspectCalls,  \* calls of kcClient.RetrospectToken for this request
    decodeCalls,      \* calls of kcClient.DecodeAccessToken for this request
    vres,             \* what ValidateAccessToken returned: [returned, sub, roles, err]
    ctx,              \* echo.Context store: [set, userID, roles]
    status,           \* HTTP status of the response, 0 while none is written
    nextInvoked,      \* KeycloakAuthMiddleware called next(c)
    handlerInvoked,   \* the route's handler ran
    introspected,     \* <<res>>: what RetrospectToken answered this request
    decoded           \* <<res>>: what DecodeAccessToken answered this request

reqVars == <<requiredRoles, rpc, req, tokenString, introspectCalls, decodeCalls,
             vres, ctx, status, nextInvoked, handlerInvoked, introspected, decoded>>

(***************************************************************************)
(* State of the credential lifecycle (Part II).                            *)
(***************************************************************************)
VARIABLES
    adminToken,     \* the cell: <<>> for nil, else <<[AccessToken, ExpiresIn]>>
    tokenMutex,     \* sync.RWMutex: [writer, readers, pending]
    tokenRefreshC,  \* number of values buffered in the channel (capacity 1)
    senders,        \* timer callbacks standing at tokenRefreshC <- true
    timers,         \* armed time.AfterFunc timers: the time left of each (ns)
    fpc,            \* position of startAdminTokenRefresher
    gpc,            \* position of each caller in getAdminAccessToken
    seen,           \* per caller: the AccessToken in the cell at its locked check
    raced,          \* per caller: the cell was written since it released RLock
    ret,            \* per caller: what its last call returned
    issued,         \* successful logins so far
    lastOutcome,    \* outcome of the refresher's last login: none, ok, fail
    lastExpiresIn,  \* ExpiresIn of the refresher's last successful login
    failStreak,     \* consecutive refresher failures (saturating)
    sinceOutcome,   \* seconds elapsed since the refresher's last outcome
    firedAt,        \* sinceOutcome when the timer armed by it fired, else -1
    expired,        \* keycloak/keycloak.go only: adminToken.IsExpired() answers true
    minted,         \* timed runs only: per issued token [age, validity], seconds
    loginElapsed    \* timed runs only: seconds the LoginClient call in flight took

credVars == <<adminToken, tokenMutex, tokenRefreshC, senders, timers, fpc, gpc,
              seen, raced, ret, issued, lastOutcome, lastExpiresIn, failStreak,
              sinceOutcome, firedAt>>

\* the clock of the timed specification; at rest in the others
clockVars == <<minted, loginElapsed>>

vars == <<reqVars, credVars, expired, clockVars>>

NoRequest == [authHeader |-> <<>>, path |-> <<>>]
NoResult == [returned |-> FALSE, sub |-> "", roles |-> <<>>, err |-> NoError]
EmptyCtx == [set |-> FALSE, userID |-> "", roles |-> <<>>]

\* main: apiGroup := e.Group("/api"); apiGroup.Use(KeycloakAuthMiddleware)
InApiGroup(path) == Len(path) >= 1 /\ path[1] = "api"
\* main: adminGroup := apiGroup.Group("/admin"); adminGroup.Use(RBACMiddleware("admin"))
InAdminGroup(path) == InApiGroup(path) /\ Len(path) >= 2 /\ path[2] = "admin"
\* main: the routes registered on adminGroup
AdminResources == {"devices", "users", "bindings", "rules"}
RouteRegistered(path) == InAdminGroup(path) /\ Len(path) >= 3 /\ path[3] \in AdminResources

\* ValidateAccessToken, role extraction: keep the string elements of
\* claims["realm_access"]["roles"], in order
RECURSIVE AppendStringRoles(_, _, _)
AppendStringRoles(realmRoles, i, roles) ==
    IF i > Len(realmRoles) THEN roles
    ELSE AppendStringRoles(realmRoles, i + 1,
            IF realmRoles[i].t = "string"
                THEN Append(roles, realmRoles[i].v[1])
                ELSE roles)

\* variant: the loop stops after the first string role
ExtractRolesFirstOnly(claimsMap) ==
    IF claimsMap.realm_access.t = "map"
        THEN LET realmAccess == claimsMap.realm_access.v[1]
             IN  IF realmAccess.roles.t = "list"
                     THEN LET roles == AppendStringRoles(realmAccess.roles.v, 1, <<>>)
                          IN  IF roles = <<>> THEN <<>> ELSE <<roles[1]>>
                     ELSE <<>>
        ELSE <<>>

\* ValidateAccessToken: var roles []string and the loop that fills it
ExtractRoles(claimsMap) ==
    IF claimsMap.realm_access.t = "map"
        THEN LET realmAccess == claimsMap.realm_access.v[1]
             IN  IF realmAccess.roles.t = "list"
                     THEN AppendStringRoles(realmAccess.roles.v, 1, <<>>)
                     ELSE <<>>
        ELSE <<>>

\* variant: a token without a realm_access map is rejected
ExtractIdentityRolesRequired(claimsMap) ==
    IF claimsMap.sub.t # "string" \/ claimsMap.realm_access.t # "map"
        THEN [returned |-> TRUE, sub |-> "", roles |-> <<>>, err |-> <<"sub claim not found or invalid">>]
        ELSE [returned |-> TRUE, sub |-> claimsMap.sub.v[1],
              roles |-> ExtractRoles(claimsMap), err |-> <<>>]

\* ValidateAccessToken, after DecodeAccessToken returned claimsMap
ExtractIdentity(claimsMap) ==
    IF claimsMap.sub.t # "string"
        THEN [returned |-> TRUE, sub |-> "", roles |-> <<>>, err |-> ErrSubClaim]
        ELSE [returned |-> TRUE, sub |-> claimsMap.sub.v[1],
              roles |-> ExtractRoles(claimsMap), err |-> NoError]

ValidationError(e) == [returned |-> TRUE, sub |-> "", roles |-> <<>>, err |-> e]

\* variant: the middleware looks for the message with a capital T
AuthErrorStatusCapitalT(err) ==
    IF Contains(err, "Token is not active")
        THEN StatusUnauthorized
        ELSE StatusInternalServerError

\* KeycloakAuthMiddleware, the status it answers a validation error with
AuthErrorStatus(err) ==
    IF Contains(err, "token is not active")
        THEN StatusUnauthorized
        ELSE StatusInternalServerError

\* RBACMiddleware, the two nested loops with their breaks
RECURSIVE UserRolesLoop(_, _, _)
UserRolesLoop(userRoles, requiredRole, j) ==
    IF j > Len(userRoles) THEN FALSE
    ELSE IF userRoles[j] = requiredRole THEN TRUE
    ELSE UserRolesLoop(userRoles, requiredRole, j + 1)

RECURSIVE RequiredRolesLoop(_, _, _)
RequiredRolesLoop(required, userRoles, i) ==
    IF i > Len(required) THEN FALSE
    ELSE IF UserRolesLoop(userRoles, required[i], 1) THEN TRUE
    ELSE RequiredRolesLoop(required, userRoles, i + 1)

\* variant: every required role must be among the caller's roles
HasRoleAll(required, userRoles) ==
    \A i \in 1..Len(required) : UserRolesLoop(userRoles, required[i], 1)

HasRole(required, userRoles) == RequiredRolesLoop(required, userRoles, 1)

(***************************************************************************)
(* Actions of the request pipeline.                                        *)
(***************************************************************************)
\* variant: the role gate is not mounted on the admin group
AfterAuthSkipsRoleGate(path) == "handler"

\* what follows the auth middleware's next(c) on this path
AfterAuth(path) == IF InAdminGroup(path) THEN "rbac" ELSE "handler"

\* a request arrives and echo routes it; outside /api no middleware of this
\* repository runs, inside /api KeycloakAuthMiddleware checks the header
KeycloakAuthMiddleware(authHeader, path) ==
    /\ rpc = "idle"
    /\ req' = [authHeader |-> authHeader, path |-> path]
    /\ introspectCalls' = 0
    /\ decodeCalls' = 0
    /\ vres' = NoResult
    /\ ctx' = EmptyCtx
    /\ nextInvoked' = FALSE
    /\ handlerInvoked' = FALSE
    /\ introspected' = <<>>
    /\ decoded' = <<>>
    /\ IF ~InApiGroup(path)
          THEN /\ rpc' = "handler"
               /\ status' = 0
               /\ tokenString' = <<>>
          ELSE IF authHeader = <<>> \/ ~HasPrefix(authHeader, BearerPrefix)
          THEN /\ rpc' = "done"
               /\ status' = StatusUnauthorized
               /\ tokenString' = <<>>
          ELSE /\ rpc' = "introspect"
               /\ status' = 0
               /\ tokenString' = TrimPrefix(authHeader, BearerPrefix)
    /\ UNCHANGED requiredRoles
    /\ UNCHANGED <<credVars, expired, clockVars>>

\* ValidateAccessToken: kcClient.RetrospectToken returns res
RetrospectTokenReturns(res) ==
    /\ rpc = "introspect"
    /\ introspectCalls' = introspectCalls + 1
    /\ introspected' = <<res>>
    /\ IF res.err # NoError
          THEN /\ vres' = ValidationError(res.err)
               /\ status' = AuthErrorStatus(res.err)
               /\ rpc' = "done"
          ELSE IF ~res.active
          THEN /\ vres' = ValidationError(ErrTokenNotActive)
               /\ status' = AuthErrorStatus(ErrTokenNotActive)
               /\ rpc' = "done"
          ELSE /\ rpc' = "decode"
               /\ UNCHANGED <<vres, status>>
    /\ UNCHANGED <<requiredRoles, req, tokenString, decodeCalls, ctx,
                   nextInvoked, handlerInvoked, decoded>>
    /\ UNCHANGED <<credVars, expired, clockVars>>

\* ValidateAccessToken: kcClient.DecodeAccessToken returns res; the middleware
\* then stores the identity and calls next(c), or answers the error
DecodeAccessTokenReturns(res) ==
    /\ rpc = "decode"
    /\ decodeCalls' = decodeCalls + 1
    /\ decoded' = <<res>>
    /\ LET r == IF res.err # NoError THEN ValidationError(res.err)
                ELSE ExtractIdentity(res.claims)
       IN  /\ vres' = r
           /\ IF r.err # NoError
                 THEN /\ status' = AuthErrorStatus(r.err)
                      /\ rpc' = "done"
                      /\ UNCHANGED <<ctx, nextInvoked>>
                 ELSE /\ ctx' = [set |-> TRUE, userID |-> r.sub, roles |-> r.roles]
                      /\ nextInvoked' = TRUE
                      /\ rpc' = AfterAuth(req.path)
                      /\ UNCHANGED status
    /\ UNCHANGED <<requiredRoles, req, tokenString, introspectCalls, handlerInvoked,
                   introspected>>
    /\ UNCHANGED <<credVars, expired, clockVars>>

\* variant: the cancelled request context also stops the armed timers
RequestCancelledStopsTimers ==
    /\ rpc \in {"introspect", "decode"}
    /\ IF rpc = "introspect"
          THEN /\ introspectCalls' = introspectCalls + 1
               /\ introspected' = <<[err |-> ErrContextCanceled, active |-> FALSE]>>
               /\ UNCHANGED <<decodeCalls, decoded>>
          ELSE /\ decodeCalls' = decodeCalls + 1
               /\ decoded' = <<[err |-> ErrContextCanceled,
                                claims |-> [sub |-> Absent, realm_access |-> Absent]]>>
               /\ UNCHANGED <<introspectCalls, introspected>>
    /\ vres' = ValidationError(ErrContextCanceled)
    /\ status' = AuthErrorStatus(ErrContextCanceled)
    /\ rpc' = "done"
    /\ UNCHANGED <<requiredRoles, req, tokenString, ctx, nextInvoked, handlerInvoked>>
    /\ timers' = <<>>
    /\ UNCHANGED <<adminToken, tokenMutex, tokenRefreshC, senders, fpc, gpc, seen,
                   raced, ret, issued, lastOutcome, lastExpiresIn, failStreak,
                   sinceOutcome, firedAt, expired, clockVars>>

\* the request's context (c.Request().Context()) is cancelled while
\* RetrospectToken or DecodeAccessToken is in flight: the call returns the
\* context's error, ValidateAccessToken returns it, the middleware answers
\* it.  Only these two calls are given the request's context; the login
\* calls run under context.Background().
RequestCancelled ==
    /\ rpc \in {"introspect", "decode"}
    /\ IF rpc = "introspect"
          THEN /\ introspectCalls' = introspectCalls + 1
               /\ introspected' = <<[err |-> ErrContextCanceled, active |-> FALSE]>>
               /\ UNCHANGED <<decodeCalls, decoded>>
          ELSE /\ decodeCalls' = decodeCalls + 1
               /\ decoded' = <<[err |-> ErrContextCanceled,
                                claims |-> [sub |-> Absent, realm_access |-> Absent]]>>
               /\ UNCHANGED <<introspectCalls, introspected>>
    /\ vres' = ValidationError(ErrContextCanceled)
    /\ status' = AuthErrorStatus(ErrContextCanceled)
    /\ rpc' = "done"
    /\ UNCHANGED <<requiredRoles, req, tokenString, ctx, nextInvoked, handlerInvoked>>
    /\ UNCHANGED <<credVars, expired, clockVars>>

\* variant: a request without a stored role list is let through
RBACMiddlewareOpenWithoutRoles ==
    /\ rpc = "rbac"
    /\ IF ctx.set /\ ~HasRole(requiredRoles, ctx.roles)
          THEN /\ status' = StatusForbidden
               /\ rpc' = "done"
          ELSE /\ rpc' = "handler"
               /\ UNCHANGED status
    /\ UNCHANGED <<requiredRoles, req, tokenString, introspectCalls, decodeCalls,
                   vres, ctx, nextInvoked, handlerInvoked, introspected, decoded>>
    /\ UNCHANGED <<credVars, expired, clockVars>>

\* the handler function RBACMiddleware(requiredRoles...) returns
RBACMiddleware ==
    /\ rpc = "rbac"
    /\ IF ~ctx.set
          THEN /\ status' = StatusForbidden
               /\ rpc' = "done"
          ELSE IF ~HasRole(requiredRoles, ctx.roles)
          THEN /\ status' = StatusForbidden
               /\ rpc' = "done"
          ELSE /\ rpc' = "handler"
               /\ UNCHANGED status
    /\ UNCHANGED <<requiredRoles, req, tokenString, introspectCalls, decodeCalls,
                   vres, ctx, nextInvoked, handlerInvoked, introspected, decoded>>
    /\ UNCHANGED <<credVars, expired, clockVars>>

\* the end of the chain: a registered admin handler, echo's NotFound handler
\* inside /api, or handlers.ServeFrontend outside it
Handler ==
    /\ rpc = "handler"
    /\ handlerInvoked' = TRUE
    /\ status' = IF InApiGroup(req.path) /\ ~RouteRegistered(req.path)
                    THEN StatusNotFound ELSE StatusOK
    /\ rpc' = "done"
    /\ UNCHANGED <<requiredRoles, req, tokenString, introspectCalls, decodeCalls,
                   vres, ctx, nextInvoked, introspected, decoded>>
    /\ UNCHANGED <<credVars, expired, clockVars>>

\* the response is written; the slot serves the next request
Respond ==
    /\ rpc = "done"
    /\ rpc' = "idle"
    /\ UNCHANGED <<requiredRoles, req, tokenString, introspectCalls, decodeCalls,
                   vres, ctx, status, nextInvoked, handlerInvoked, introspected,
                   decoded>>
    /\ UNCHANGED <<credVars, expired, clockVars>>

\* the request slot before the first request
RequestSlotEmpty ==
    /\ rpc = "idle"
    /\ req = NoRequest
    /\ tokenString = <<>>
    /\ introspectCalls = 0
    /\ decodeCalls = 0
    /\ vres = NoResult
    /\ ctx = EmptyCtx
    /\ status = 0
    /\ nextInvoked = FALSE
    /\ handlerInvoked = FALSE
    /\ introspected = <<>>
    /\ decoded = <<>>

\* main: adminGroup.Use(middleware.RBACMiddleware("admin"))
MainRequiredRoles == <<"admin">>

NextRequest ==
    \/ \E h \in AuthHeaders, p \in Paths : KeycloakAuthMiddleware(h, p)
    \/ \E res \in IntrospectResults : RetrospectTokenReturns(res)
    \/ \E res \in DecodeResults : DecodeAccessTokenReturns(res)
    \/ RequestCancelled
    \/ RBACMiddleware
    \/ Handler
    \/ Respond


(***************************************************************************)
(* Part II  the credential lifecycle: InitKeycloak, getAdminAccessToken    *)
(*          and startAdminTokenRefresher (specification Spec).             *)
(*                                                                         *)
(* 64-bit integers.  Go's int (amd64/arm64) and time.Duration are 64 bits  *)
(* wide and wrap on overflow.  A value is its two's complement bit pattern *)
(* as five limbs, least significant first: four limbs of 15 bits and a top *)
(* limb of 4 bits.                                                         *)
(***************************************************************************)
LimbBase == 32768
TopLimbBase == 16
NumLimbs == 5

LimbMod(i) == IF i = NumLimbs THEN TopLimbBase ELSE LimbBase

Zero64 == <<0, 0, 0, 0, 0>>

\* a + b + carry, limb by limb from limb i on; the carry out of bit 63 is lost
RECURSIVE AddFrom(_, _, _, _)
AddFrom(a, b, i, carry) ==
    IF i > NumLimbs THEN <<>>
    ELSE LET t == a[i] + b[i] + carry
         IN  <<t % LimbMod(i)>> \o AddFrom(a, b, i + 1, t \div LimbMod(i))

Add64(a, b) == AddFrom(a, b, 1, 0)

Not64(a) == [i \in 1..NumLimbs |-> LimbMod(i) - 1 - a[i]]
Neg64(a) == AddFrom(Not64(a), Zero64, 1, 1)
Sub64(a, b) == Add64(a, Neg64(b))

\* the int64 of a small integer, |n| < 2^30
Int64(n) ==
    LET m == IF n >= 0 THEN n ELSE -n
        u == <<m % LimbBase, m \div LimbBase, 0, 0, 0>>
    IN  IF n >= 0 THEN u ELSE Neg64(u)

IsNeg64(a) == a[NumLimbs] >= TopLimbBase \div 2

\* unsigned comparison, most significant limb first
RECURSIVE ULessFrom(_, _, _)
ULessFrom(a, b, i) ==
    IF i = 0 THEN FALSE
    ELSE IF a[i] # b[i] THEN a[i] < b[i]
    ELSE ULessFrom(a, b, i - 1)

\* signed a < b
Less64(a, b) ==
    IF IsNeg64(a) # IsNeg64(b) THEN IsNeg64(a)
    ELSE ULessFrom(a, b, NumLimbs)

\* a * d for one limb d, from limb i on, wrapping at 64 bits
RECURSIVE MulLimbFrom(_, _, _, _)
MulLimbFrom(a, d, i, carry) ==
    IF i > NumLimbs THEN <<>>
    ELSE LET t == a[i] * d + carry
         IN  <<t % LimbMod(i)>> \o MulLimbFrom(a, d, i + 1, t \div LimbMod(i))

\* a shifted up by k limbs, wrapping at 64 bits
ShiftLimbs(a, k) ==
    [i \in 1..NumLimbs |->
        IF i <= k THEN 0
        ELSE IF i = NumLimbs THEN a[i - k] % TopLimbBase
        ELSE a[i - k]]

RECURSIVE MulFrom(_, _, _)
MulFrom(a, b, j) ==
    IF j > NumLimbs THEN Zero64
    ELSE Add64(ShiftLimbs(MulLimbFrom(a, b[j], 1, 0), j - 1), MulFrom(a, b, j + 1))

\* int64 multiplication, wrapping
Mul64(a, b) == MulFrom(a, b, 1)

\* time.Second, in nanoseconds
Second == Int64(1000000000)


(***************************************************************************)
(* Bounds and inputs of the credential lifecycle.                          *)
(***************************************************************************)
\* goroutines calling getAdminAccessToken (FetchKeycloakUsers,
\* UpdateKeycloakUserStatus)
NumCallers == 2
\* successful logins the identity provider answers; each issues a fresh token
MaxLogins == 2
\* the count of consecutive refresher failures saturates here
MaxFailStreak == 3

\* timer slots examined for a due timer; one trigger is in flight at a time
MaxTimers == 2

Callers == 1..NumCallers
\* the goroutine of startAdminTokenRefresher, and no goroutine
Refresher == 0
NoProc == -1

\* expires_in values of the login response: negative, zero, around the 30
\* second margin, and 2^34 seconds, for which (E - 30) * time.Second exceeds
\* the 64 bits of time.Duration
TwoTo34 == <<0, 0, 16, 0, 0>>
ExpiresInValues ==
    { Int64(-5), Int64(0), Int64(31), Int64(32), Int64(35), TwoTo34 }

\* the retry backoff and the refresh margin of startAdminTokenRefresher, seconds
RetryBackoff == 10
RefreshMargin == 30

\* an access token no login ever returned: what a read that races with the
\* write of the cell may observe (torn or not yet visible string header)
TornToken == -1


NoReturn == [returned |-> FALSE, tok |-> 0, err |-> "nil"]

\* sync.RWMutex.  Lock() first takes the mutex that serialises writers and
\* announces itself, which keeps new readers out (pending), then waits until
\* the readers that hold the lock have left (writer).
Unlocked == [writer |-> NoProc, readers |-> {}, pending |-> NoProc]
\* Lock() can announce itself: no other Lock() is pending or holds the lock
CanBeginLock == tokenMutex.writer = NoProc /\ tokenMutex.pending = NoProc
\* the announced Lock() of p returns: the last reader has left
CanLock(p) == tokenMutex.pending = p /\ tokenMutex.readers = {}
\* RLock() returns unless a writer holds the lock or a Lock() is pending
CanRLock == tokenMutex.writer = NoProc /\ tokenMutex.pending = NoProc

\* a write of the cell is unordered with the unlocked dereference of every
\* caller that has released its read lock and not yet returned
RacedAfterWrite == [c \in Callers |-> raced[c] \/ gpc[c] = "deref"]

\* variant: the timer is armed twice
AfterFuncTwice(d) == Append(Append(timers, d), d)

\* time.AfterFunc(d, func() { tokenRefreshC <- true })
AfterFunc(d) == Append(timers, d)

\* a timer is due once no time is left; a duration <= 0 is due at once
Due(left) == ~Less64(Zero64, left)

\* startAdminTokenRefresher: the delay of the next refresh
NextRefreshDuration(tokenExpiresIn) ==
    LET expiresIn == Sub64(tokenExpiresIn, Int64(RefreshMargin))
        floored == IF Less64(expiresIn, Int64(1)) THEN Int64(1) ELSE expiresIn
    IN  Mul64(floored, Second)

\* variant: the backoff grows with the number of consecutive failures
RetryDurationGrowing == Mul64(Int64(RetryBackoff * (failStreak + 1)), Second)

\* startAdminTokenRefresher: the delay of the retry
RetryDuration == Mul64(Int64(RetryBackoff), Second)

\* variant: InitKeycloak returns without sending the first signal
InitKeycloakNoSignal ==
    /\ adminToken = <<>>
    /\ tokenMutex = Unlocked
    /\ tokenRefreshC = 0
    /\ senders = 0
    /\ timers = <<>>
    /\ fpc = "recv"
    /\ gpc = [c \in Callers |-> "idle"]
    /\ seen = [c \in Callers |-> 0]
    /\ raced = [c \in Callers |-> FALSE]
    /\ ret = [c \in Callers |-> NoReturn]
    /\ issued = 0
    /\ lastOutcome = "none"
    /\ lastExpiresIn = Zero64
    /\ failStreak = 0
    /\ sinceOutcome = 0
    /\ firedAt = -1
    /\ expired = FALSE
    /\ minted = <<>>
    /\ loginElapsed = 0

(***************************************************************************)
(* State after InitKeycloak returned: the channel holds the first signal   *)
(* and the refresher goroutine stands at its range loop.                   *)
(***************************************************************************)
InitKeycloak ==
    /\ adminToken = <<>>
    /\ tokenMutex = Unlocked
    /\ tokenRefreshC = 1
    /\ senders = 0
    /\ timers = <<>>
    /\ fpc = "recv"
    /\ gpc = [c \in Callers |-> "idle"]
    /\ seen = [c \in Callers |-> 0]
    /\ raced = [c \in Callers |-> FALSE]
    /\ ret = [c \in Callers |-> NoReturn]
    /\ issued = 0
    /\ lastOutcome = "none"
    /\ lastExpiresIn = Zero64
    /\ failStreak = 0
    /\ sinceOutcome = 0
    /\ firedAt = -1
    /\ expired = FALSE
    /\ minted = <<>>
    /\ loginElapsed = 0

(***************************************************************************)
(* startAdminTokenRefresher                                                *)
(***************************************************************************)
\* for range tokenRefreshC: receive one signal
RefresherReceive ==
    /\ fpc = "recv"
    /\ tokenRefreshC > 0
    /\ tokenRefreshC' = tokenRefreshC - 1
    /\ fpc' = "lock"
    /\ UNCHANGED <<adminToken, tokenMutex, senders, timers, gpc, seen, raced, ret,
                   issued, lastOutcome, lastExpiresIn, failStreak, sinceOutcome,
                   firedAt>>
    /\ UNCHANGED <<reqVars, expired, clockVars>>

\* tokenMutex.Lock() is called
RefresherLockBegins ==
    /\ fpc = "lock"
    /\ CanBeginLock
    /\ tokenMutex' = [tokenMutex EXCEPT !.pending = Refresher]
    /\ UNCHANGED <<adminToken, tokenRefreshC, senders, timers, fpc, gpc, seen,
                   raced, ret, issued, lastOutcome, lastExpiresIn, failStreak,
                   sinceOutcome, firedAt>>
    /\ UNCHANGED <<reqVars, expired, clockVars>>

\* tokenMutex.Lock() returns, then LoginClient is called with the lock held
RefresherLock ==
    /\ fpc = "lock"
    /\ CanLock(Refresher)
    /\ tokenMutex' = [tokenMutex EXCEPT !.writer = Refresher, !.pending = NoProc]
    /\ fpc' = "login"
    /\ UNCHANGED <<adminToken, tokenRefreshC, senders, timers, gpc, seen, raced,
                   ret, issued, lastOutcome, lastExpiresIn, failStreak,
                   sinceOutcome, firedAt>>
    /\ UNCHANGED <<reqVars, expired, clockVars>>

\* variant: the failed renewal drops the credential of the cell
RefresherLoginFailsClearsCell ==
    /\ fpc = "login"
    /\ adminToken' = <<>>
    /\ raced' = RacedAfterWrite
    /\ tokenMutex' = Unlocked
    /\ timers' = AfterFunc(RetryDuration)
    /\ fpc' = "recv"
    /\ lastOutcome' = "fail"
    /\ failStreak' = IF failStreak < MaxFailStreak THEN failStreak + 1 ELSE failStreak
    /\ sinceOutcome' = 0
    /\ firedAt' = -1
    /\ UNCHANGED <<tokenRefreshC, senders, gpc, seen, ret, issued, lastExpiresIn>>
    /\ UNCHANGED <<reqVars, expired, clockVars>>

\* LoginClient fails (error or the 10 second timeout): unlock, retry later
RefresherLoginFails ==
    /\ fpc = "login"
    /\ tokenMutex' = Unlocked
    /\ timers' = AfterFunc(RetryDuration)
    /\ fpc' = "recv"
    /\ lastOutcome' = "fail"
    /\ failStreak' = IF failStreak < MaxFailStreak THEN failStreak + 1 ELSE failStreak
    /\ sinceOutcome' = 0
    /\ firedAt' = -1
    /\ UNCHANGED <<adminToken, tokenRefreshC, senders, gpc, seen, raced, ret,
                   issued, lastExpiresIn>>
    /\ UNCHANGED <<reqVars, expired, clockVars>>

\* LoginClient succeeds with a token valid for expiresInSeconds: store it,
\* unlock, schedule the next refresh
RefresherLoginSucceeds(expiresInSeconds) ==
    /\ fpc = "login"
    /\ issued < MaxLogins
    /\ LET token == [AccessToken |-> issued + 1, ExpiresIn |-> expiresInSeconds]
       IN  /\ adminToken' = <<token>>
           /\ timers' = AfterFunc(NextRefreshDuration(token.ExpiresIn))
    /\ raced' = RacedAfterWrite
    /\ tokenMutex' = Unlocked
    /\ issued' = issued + 1
    /\ fpc' = "recv"
    /\ lastOutcome' = "ok"
    /\ lastExpiresIn' = expiresInSeconds
    /\ failStreak' = 0
    /\ sinceOutcome' = 0
    /\ firedAt' = -1
    /\ UNCHANGED <<tokenRefreshC, senders, gpc, seen, ret>>
    /\ UNCHANGED <<reqVars, expired, clockVars>>

(***************************************************************************)
(* Timers and the clock                                                    *)
(***************************************************************************)
RemoveAt(s, i) == SubSeq(s, 1, i - 1) \o SubSeq(s, i + 1, Len(s))

\* a due timer runs its callback in a goroutine of its own
TimerFires(i) ==
    /\ i \in 1..Len(timers)
    /\ Due(timers[i])
    /\ timers' = RemoveAt(timers, i)
    /\ senders' = senders + 1
    /\ firedAt' = sinceOutcome
    /\ UNCHANGED <<adminToken, tokenMutex, tokenRefreshC, fpc, gpc, seen, raced,
                   ret, issued, lastOutcome, lastExpiresIn, failStreak,
                   sinceOutcome>>
    /\ UNCHANGED <<reqVars, expired, clockVars>>

\* the callback: tokenRefreshC <- true, which blocks while the buffer is full
TimerCallbackSends ==
    /\ senders > 0
    /\ tokenRefreshC < 1
    /\ tokenRefreshC' = tokenRefreshC + 1
    /\ senders' = senders - 1
    /\ UNCHANGED <<adminToken, tokenMutex, timers, fpc, gpc, seen, raced, ret,
                   issued, lastOutcome, lastExpiresIn, failStreak, sinceOutcome,
                   firedAt>>
    /\ UNCHANGED <<reqVars, expired, clockVars>>

\* one second passes while timers are armed and none is due
Tick ==
    /\ timers # <<>>
    /\ \A i \in 1..Len(timers) : ~Due(timers[i])
    /\ timers' = [i \in 1..Len(timers) |-> Sub64(timers[i], Second)]
    /\ sinceOutcome' = sinceOutcome + 1
    /\ UNCHANGED <<adminToken, tokenMutex, tokenRefreshC, senders, fpc, gpc, seen,
                   raced, ret, issued, lastOutcome, lastExpiresIn, failStreak,
                   firedAt>>
    /\ UNCHANGED <<reqVars, expired, clockVars>>


(***************************************************************************)
(* getAdminAccessToken, called by goroutine c                              *)
(***************************************************************************)
Returns(token) == [returned |-> TRUE, tok |-> token, err |-> "nil"]
ReturnsError(e) == [returned |-> TRUE, tok |-> 0, err |-> e]

\* tokenMutex.RLock()
CallerRLock(c) ==
    /\ gpc[c] = "idle"
    /\ CanRLock
    /\ tokenMutex' = [tokenMutex EXCEPT !.readers = @ \cup {c}]
    /\ gpc' = [gpc EXCEPT ![c] = "check"]
    /\ ret' = [ret EXCEPT ![c] = NoReturn]
    /\ UNCHANGED <<adminToken, tokenRefreshC, senders, timers, fpc, seen, raced,
                   issued, lastOutcome, lastExpiresIn, failStreak, sinceOutcome,
                   firedAt>>
    /\ UNCHANGED <<reqVars, expired, clockVars>>

\* if adminToken != nil { RUnlock(); ... } else RUnlock(): on both paths the
\* read lock is released before anything else happens
CallerFastCheck(c) ==
    /\ gpc[c] = "check"
    /\ tokenMutex' = [tokenMutex EXCEPT !.readers = @ \ {c}]
    /\ IF adminToken # <<>>
          THEN /\ gpc' = [gpc EXCEPT ![c] = "deref"]
               /\ seen' = [seen EXCEPT ![c] = adminToken[1].AccessToken]
          ELSE /\ gpc' = [gpc EXCEPT ![c] = "lock"]
               /\ UNCHANGED seen
    /\ raced' = [raced EXCEPT ![c] = FALSE]
    /\ UNCHANGED <<adminToken, tokenRefreshC, senders, timers, fpc, ret, issued,
                   lastOutcome, lastExpiresIn, failStreak, sinceOutcome, firedAt>>
    /\ UNCHANGED <<reqVars, expired, clockVars>>

\* what the unlocked read adminToken.AccessToken may yield.  Without a write
\* since the read lock was released it is the cell's token.  Otherwise the
\* read is a data race with that write: the pointer read observes the old or
\* the new credential, and the string read through the new pointer is not
\* ordered after its initialisation, so it may observe a value that no
\* single write produced (Go memory model, races on multiword values).
DerefOutcomes(c) ==
    IF raced[c]
        THEN {seen[c], adminToken[1].AccessToken, TornToken}
        ELSE {adminToken[1].AccessToken}

\* return adminToken.AccessToken, nil -- after RUnlock
CallerFastReturn(c) ==
    /\ gpc[c] = "deref"
    /\ IF adminToken = <<>>
          THEN ret' = [ret EXCEPT ![c] = ReturnsError("nil pointer dereference")]
          ELSE \E token \in DerefOutcomes(c) : ret' = [ret EXCEPT ![c] = Returns(token)]
    /\ gpc' = [gpc EXCEPT ![c] = "idle"]
    /\ raced' = [raced EXCEPT ![c] = FALSE]
    /\ UNCHANGED <<adminToken, tokenMutex, tokenRefreshC, senders, timers, fpc,
                   seen, issued, lastOutcome, lastExpiresIn, failStreak,
                   sinceOutcome, firedAt>>
    /\ UNCHANGED <<reqVars, expired, clockVars>>

\* tokenMutex.Lock() is called
CallerLockBegins(c) ==
    /\ gpc[c] = "lock"
    /\ CanBeginLock
    /\ tokenMutex' = [tokenMutex EXCEPT !.pending = c]
    /\ UNCHANGED <<adminToken, tokenRefreshC, senders, timers, fpc, gpc, seen,
                   raced, ret, issued, lastOutcome, lastExpiresIn, failStreak,
                   sinceOutcome, firedAt>>
    /\ UNCHANGED <<reqVars, expired, clockVars>>

\* variant: no second check after tokenMutex.Lock()
CallerLockNoRecheck(c) ==
    /\ gpc[c] = "lock"
    /\ CanLock(c)
    /\ tokenMutex' = [tokenMutex EXCEPT !.writer = c, !.pending = NoProc]
    /\ gpc' = [gpc EXCEPT ![c] = "login"]
    /\ UNCHANGED <<adminToken, tokenRefreshC, senders, timers, fpc, seen, raced,
                   ret, issued, lastOutcome, lastExpiresIn, failStreak,
                   sinceOutcome, firedAt>>
    /\ UNCHANGED <<reqVars, expired, clockVars>>

\* tokenMutex.Lock() returns; defer Unlock(); the second check: return the
\* token that appeared meanwhile (the deferred Unlock releases the lock), or
\* call LoginClient with the lock held
CallerLock(c) ==
    /\ gpc[c] = "lock"
    /\ CanLock(c)
    /\ IF adminToken # <<>>
          THEN /\ ret' = [ret EXCEPT ![c] = Returns(adminToken[1].AccessToken)]
               /\ gpc' = [gpc EXCEPT ![c] = "idle"]
               /\ tokenMutex' = Unlocked
          ELSE /\ tokenMutex' = [tokenMutex EXCEPT !.writer = c, !.pending = NoProc]
               /\ gpc' = [gpc EXCEPT ![c] = "login"]
               /\ UNCHANGED ret
    /\ UNCHANGED <<adminToken, tokenRefreshC, senders, timers, fpc, seen, raced,
                   issued, lastOutcome, lastExpiresIn, failStreak, sinceOutcome,
                   firedAt>>
    /\ UNCHANGED <<reqVars, expired, clockVars>>

\* variant: the failed login returns without releasing the lock
CallerLoginFailsKeepsLock(c) ==
    /\ gpc[c] = "login"
    /\ adminToken' = <<>>
    /\ raced' = RacedAfterWrite
    /\ ret' = [ret EXCEPT ![c] = ReturnsError("login failed")]
    /\ gpc' = [gpc EXCEPT ![c] = "idle"]
    /\ UNCHANGED <<tokenMutex, tokenRefreshC, senders, timers, fpc, seen, issued,
                   lastOutcome, lastExpiresIn, failStreak, sinceOutcome, firedAt>>
    /\ UNCHANGED <<reqVars, expired, clockVars>>

\* adminToken, err = LoginClient(...) with err != nil: LoginClient's nil *JWT
\* is assigned to the cell, the error is returned, the lock released
CallerLoginFails(c) ==
    /\ gpc[c] = "login"
    /\ adminToken' = <<>>
    /\ raced' = RacedAfterWrite
    /\ ret' = [ret EXCEPT ![c] = ReturnsError("login failed")]
    /\ tokenMutex' = Unlocked
    /\ gpc' = [gpc EXCEPT ![c] = "idle"]
    /\ UNCHANGED <<tokenRefreshC, senders, timers, fpc, seen, issued, lastOutcome,
                   lastExpiresIn, failStreak, sinceOutcome, firedAt>>
    /\ UNCHANGED <<reqVars, expired, clockVars>>

\* variant: the fallback login schedules a refresh of its own
CallerLoginSucceedsArmsTimer(c, expiresInSeconds) ==
    /\ gpc[c] = "login"
    /\ issued < MaxLogins
    /\ LET token == [AccessToken |-> issued + 1, ExpiresIn |-> expiresInSeconds]
       IN  /\ adminToken' = <<token>>
           /\ ret' = [ret EXCEPT ![c] = Returns(token.AccessToken)]
           /\ timers' = AfterFunc(NextRefreshDuration(token.ExpiresIn))
    /\ raced' = RacedAfterWrite
    /\ issued' = issued + 1
    /\ tokenMutex' = Unlocked
    /\ gpc' = [gpc EXCEPT ![c] = "idle"]
    /\ UNCHANGED <<tokenRefreshC, senders, fpc, seen, lastOutcome,
                   lastExpiresIn, failStreak, sinceOutcome, firedAt>>
    /\ UNCHANGED <<reqVars, expired, clockVars>>

\* adminToken, err = LoginClient(...) with err == nil
CallerLoginSucceeds(c, expiresInSeconds) ==
    /\ gpc[c] = "login"
    /\ issued < MaxLogins
    /\ LET token == [AccessToken |-> issued + 1, ExpiresIn |-> expiresInSeconds]
       IN  /\ adminToken' = <<token>>
           /\ ret' = [ret EXCEPT ![c] = Returns(token.AccessToken)]
    /\ raced' = RacedAfterWrite
    /\ issued' = issued + 1
    /\ tokenMutex' = Unlocked
    /\ gpc' = [gpc EXCEPT ![c] = "idle"]
    /\ UNCHANGED <<tokenRefreshC, senders, timers, fpc, seen, lastOutcome,
                   lastExpiresIn, failStreak, sinceOutcome, firedAt>>
    /\ UNCHANGED <<reqVars, expired, clockVars>>

(***************************************************************************)
(* Specifications                                                          *)
(***************************************************************************)
Init ==
    /\ InitKeycloak
    /\ RequestSlotEmpty
    /\ requiredRoles = MainRequiredRoles

\* the credential lifecycle, with the request pipeline at rest
Next ==
    \/ RefresherReceive
    \/ RefresherLockBegins
    \/ RefresherLock
    \/ RefresherLoginFails
    \/ \E e \in ExpiresInValues : RefresherLoginSucceeds(e)
    \/ \E i \in 1..MaxTimers : TimerFires(i)
    \/ TimerCallbackSends
    \/ Tick
    \/ \E c \in Callers : CallerRLock(c)
    \/ \E c \in Callers : CallerFastCheck(c)
    \/ \E c \in Callers : CallerFastReturn(c)
    \/ \E c \in Callers : CallerLockBegins(c)
    \/ \E c \in Callers : CallerLock(c)
    \/ \E c \in Callers : CallerLoginFails(c)
    \/ \E c \in Callers, e \in ExpiresInValues : CallerLoginSucceeds(c, e)

Spec == Init /\ [][Next]_vars

\* Scheduling.  A goroutine that can run does run: the refresher receives a
\* buffered signal and proceeds; a LoginClient call returns (its context has a
\* 10 second timeout); a caller that holds or waits for the lock goes on to
\* release it.  sync.Mutex hands the writers' mutex to a goroutine that has
\* waited for it (starvation mode), hence the strong fairness of the
\* Lock() announcing itself, in the refresher and in a caller.  No request
\* is required to arrive.
Fairness ==
    /\ WF_vars(RefresherReceive)
    /\ SF_vars(RefresherLockBegins)
    /\ WF_vars(RefresherLock)
    /\ WF_vars(RefresherLoginFails
                  \/ \E e \in ExpiresInValues : RefresherLoginSucceeds(e))
    /\ \A c \in Callers :
          /\ WF_vars(CallerFastCheck(c))
          /\ WF_vars(CallerFastReturn(c))
          /\ SF_vars(CallerLockBegins(c))
          /\ WF_vars(CallerLock(c))
          /\ WF_vars(CallerLoginFails(c)
                        \/ \E e \in ExpiresInValues : CallerLoginSucceeds(c, e))

\* the credential lifecycle under fair scheduling
SpecLive == Init /\ [][Next]_vars /\ Fairness

(***************************************************************************)
(* The credential lifecycle with a clock, for logins that all succeed.     *)
(* Time passes while a timer is armed or a LoginClient call is in flight;  *)
(* every other step of a goroutine takes no time.                          *)
(***************************************************************************)
\* context.WithTimeout(context.Background(), 10*time.Second), seconds
LoginTimeout == 10

\* expires_in values above 40 seconds: just above, some more, and 2^34
RenewalExpiresInValues == { Int64(41), Int64(45), TwoTo34 }

LoginInFlight == fpc = "login" \/ \E c \in Callers : gpc[c] = "login"

\* one second passes: every armed timer has a second less left, every issued
\* token is a second older, the LoginClient call in flight has taken a second
\* more; a due timer fires first, a login ends within its timeout, and a
\* caller between its RLock and its return (no blocking call there) goes on
SecondPasses ==
    /\ timers # <<>> \/ LoginInFlight
    /\ \A i \in 1..Len(timers) : ~Due(timers[i])
    /\ LoginInFlight => loginElapsed < LoginTimeout
    /\ \A c \in Callers : gpc[c] \notin {"check", "deref"}
    /\ timers' = [i \in 1..Len(timers) |-> Sub64(timers[i], Second)]
    /\ minted' = [t \in 1..Len(minted) |-> [minted[t] EXCEPT !.age = @ + 1]]
    /\ loginElapsed' = IF LoginInFlight THEN loginElapsed + 1 ELSE loginElapsed
    /\ sinceOutcome' = sinceOutcome + 1
    /\ UNCHANGED <<adminToken, tokenMutex, tokenRefreshC, senders, fpc, gpc, seen,
                   raced, ret, issued, lastOutcome, lastExpiresIn, failStreak,
                   firedAt>>
    /\ UNCHANGED <<reqVars, expired>>

\* the refresher's LoginClient succeeds after loginElapsed seconds with a
\* token valid for expiresInSeconds that the identity provider issued
\* issuedAgo seconds before the call returned: store it, unlock, schedule
TimedRefresherLogin(expiresInSeconds, issuedAgo) ==
    /\ fpc = "login"
    /\ issued < MaxLogins
    /\ issuedAgo \in {0, loginElapsed}
    /\ LET token == [AccessToken |-> issued + 1, ExpiresIn |-> expiresInSeconds]
       IN  /\ adminToken' = <<token>>
           /\ timers' = AfterFunc(NextRefreshDuration(token.ExpiresIn))
    /\ minted' = Append(minted, [age |-> issuedAgo, validity |-> expiresInSeconds])
    /\ loginElapsed' = 0
    /\ raced' = RacedAfterWrite
    /\ tokenMutex' = Unlocked
    /\ issued' = issued + 1
    /\ fpc' = "recv"
    /\ lastOutcome' = "ok"
    /\ lastExpiresIn' = expiresInSeconds
    /\ failStreak' = 0
    /\ sinceOutcome' = 0
    /\ firedAt' = -1
    /\ UNCHANGED <<tokenRefreshC, senders, gpc, seen, ret>>
    /\ UNCHANGED <<reqVars, expired>>

\* the fallback LoginClient of caller c succeeds after loginElapsed seconds
TimedCallerLogin(c, expiresInSeconds, issuedAgo) ==
    /\ gpc[c] = "login"
    /\ issued < MaxLogins
    /\ issuedAgo \in {0, loginElapsed}
    /\ LET token == [AccessToken |-> issued + 1, ExpiresIn |-> expiresInSeconds]
       IN  /\ adminToken' = <<token>>
           /\ ret' = [ret EXCEPT ![c] = Returns(token.AccessToken)]
    /\ minted' = Append(minted, [age |-> issuedAgo, validity |-> expiresInSeconds])
    /\ loginElapsed' = 0
    /\ raced' = RacedAfterWrite
    /\ issued' = issued + 1
    /\ tokenMutex' = Unlocked
    /\ gpc' = [gpc EXCEPT ![c] = "idle"]
    /\ UNCHANGED <<tokenRefreshC, senders, timers, fpc, seen, lastOutcome,
                   lastExpiresIn, failStreak, sinceOutcome, firedAt>>
    /\ UNCHANGED <<reqVars, expired>>

\* one request-serving goroutine calls getAdminAccessToken, again and again
RenewalCallers == {1}

NextRenewal ==
    \/ RefresherReceive
    \/ RefresherLockBegins
    \/ RefresherLock
    \/ \E e \in RenewalExpiresInValues, a \in 0..LoginTimeout : TimedRefresherLogin(e, a)
    \/ \E i \in 1..MaxTimers : TimerFires(i)
    \/ TimerCallbackSends
    \/ SecondPasses
    \/ \E c \in RenewalCallers : CallerRLock(c)
    \/ \E c \in RenewalCallers : CallerFastCheck(c)
    \/ \E c \in RenewalCallers : CallerFastReturn(c)
    \/ \E c \in RenewalCallers : CallerLockBegins(c)
    \/ \E c \in RenewalCallers : CallerLock(c)
    \/ \E c \in RenewalCallers, e \in RenewalExpiresInValues, a \in 0..LoginTimeout :
          TimedCallerLogin(c, e, a)

SpecRenewal == Init /\ [][NextRenewal]_vars

\* the request pipeline served while the refresher and its timers run
NextSystem ==
    \/ \E h \in AuthHeaders, p \in Paths : KeycloakAuthMiddleware(h, p)
    \/ \E res \in IntrospectResults : RetrospectTokenReturns(res)
    \/ \E res \in DecodeResults : DecodeAccessTokenReturns(res)
    \/ RequestCancelled
    \/ RBACMiddleware
    \/ Handler
    \/ Respond
    \/ RefresherReceive
    \/ RefresherLockBegins
    \/ RefresherLock
    \/ RefresherLoginFails
    \/ \E e \in ExpiresInValues : RefresherLoginSucceeds(e)
    \/ \E i \in 1..MaxTimers : TimerFires(i)
    \/ TimerCallbackSends
    \/ Tick

SpecSystem == Init /\ [][NextSystem]_vars

\* the earlier revision of RBACMiddleware (part_004): a missing role list is
\* answered with 500, the rest is the same
LegacyRBACMiddleware ==
    /\ rpc = "rbac"
    /\ IF ~ctx.set
          THEN /\ status' = StatusInternalServerError
               /\ rpc' = "done"
          ELSE IF ~HasRole(requiredRoles, ctx.roles)
          THEN /\ status' = StatusForbidden
               /\ rpc' = "done"
          ELSE /\ rpc' = "handler"
               /\ UNCHANGED status
    /\ UNCHANGED <<requiredRoles, req, tokenString, introspectCalls, decodeCalls,
                   vres, ctx, nextInvoked, handlerInvoked, introspected, decoded>>
    /\ UNCHANGED <<credVars, expired, clockVars>>

\* what c.Get(UserRoles) may hold when the role gate runs: nothing, or the
\* []string a preceding middleware stored
StoredContexts ==
    {EmptyCtx} \cup
        {[set |-> TRUE, userID |-> "u1", roles |-> r] :
            r \in SeqsUpTo(RoleNames, MaxRoles)}

\* the role gate on its own: RBACMiddleware(requiredRoles...) wrapped around
\* a handler and applied to a request with any stored context
InitRoleGate ==
    /\ InitKeycloak
    /\ requiredRoles \in RequiredRoleLists
    /\ ctx \in StoredContexts
    /\ rpc = "rbac"
    /\ req = [authHeader |-> BearerPrefix \o <<"t", "1">>,
              path |-> <<"api", "admin", "users">>]
    /\ tokenString = <<"t", "1">>
    /\ introspectCalls = 0
    /\ decodeCalls = 0
    /\ vres = NoResult
    /\ status = 0
    /\ nextInvoked = FALSE
    /\ handlerInvoked = FALSE
    /\ introspected = <<>>
    /\ decoded = <<>>

NextRoleGate ==
    \/ RBACMiddleware
    \/ LegacyRBACMiddleware
    \/ Handler
    \/ Respond

SpecRoleGate == InitRoleGate /\ [][NextRoleGate]_vars

\* RBACMiddleware is variadic: the pipeline is checked for every required-role
\* list a group can be configured with, main's among them
InitRequest ==
    /\ InitKeycloak
    /\ RequestSlotEmpty
    /\ requiredRoles \in RequiredRoleLists

\* the request pipeline, with the credential lifecycle at rest
SpecRequest == InitRequest /\ [][NextRequest]_vars



(***************************************************************************)
(* Part III the earlier revision of the credential code in                 *)
(*          keycloak/keycloak.go (specification SpecLegacy).  There        *)
(*          getAdminAccessToken treats an expired credential like a        *)
(*          missing one, and startAdminTokenRefresher obtains the token    *)
(*          through getAdminAccessToken.  p is a caller or the refresher.  *)
(***************************************************************************)
LegacyProcs == Callers \cup {Refresher}

LegacyPc(p) == IF p = Refresher THEN fpc ELSE gpc[p]

LegacySetPc(p, v) ==
    IF p = Refresher
        THEN fpc' = v /\ gpc' = gpc
        ELSE gpc' = [gpc EXCEPT ![p] = v] /\ fpc' = fpc

\* the process runs until a goroutine panics
LegacyRunning == fpc # "panic"

\* if adminToken != nil && !adminToken.IsExpired()
LegacyUsable == adminToken # <<>> /\ ~expired

\* getAdminAccessToken returns the token to p: a caller has its result, the
\* refresher goes on to schedule the next refresh
LegacyReturns(p, token) ==
    IF p = Refresher
        THEN fpc' = "schedule" /\ UNCHANGED <<gpc, ret, timers, sinceOutcome, firedAt>>
        ELSE /\ gpc' = [gpc EXCEPT ![p] = "idle"]
             /\ ret' = [ret EXCEPT ![p] = Returns(token)]
             /\ UNCHANGED <<fpc, timers, sinceOutcome, firedAt>>

\* getAdminAccessToken returns an error to p: the refresher arms the retry
LegacyReturnsError(p) ==
    IF p = Refresher
        THEN /\ fpc' = "recv"
             /\ timers' = AfterFunc(RetryDuration)
             /\ sinceOutcome' = 0
             /\ firedAt' = -1
             /\ UNCHANGED <<gpc, ret>>
        ELSE /\ gpc' = [gpc EXCEPT ![p] = "idle"]
             /\ ret' = [ret EXCEPT ![p] = ReturnsError("login failed")]
             /\ UNCHANGED <<fpc, timers, sinceOutcome, firedAt>>

\* startAdminTokenRefresher: for range tokenRefreshC
LegacyRefresherReceive ==
    /\ LegacyRunning
    /\ fpc = "recv"
    /\ tokenRefreshC > 0
    /\ tokenRefreshC' = tokenRefreshC - 1
    /\ fpc' = "call"
    /\ UNCHANGED <<adminToken, tokenMutex, senders, timers, gpc, seen, raced, ret,
                   issued, lastOutcome, lastExpiresIn, failStreak, sinceOutcome,
                   firedAt, expired>>
    /\ UNCHANGED <<reqVars, clockVars>>

\* getAdminAccessToken: tokenMutex.RLock()
LegacyRLock(p) ==
    /\ LegacyRunning
    /\ LegacyPc(p) = (IF p = Refresher THEN "call" ELSE "idle")
    /\ CanRLock
    /\ tokenMutex' = [tokenMutex EXCEPT !.readers = @ \cup {p}]
    /\ LegacySetPc(p, "check")
    /\ ret' = [c \in Callers |-> IF c = p THEN NoReturn ELSE ret[c]]
    /\ UNCHANGED <<adminToken, tokenRefreshC, senders, timers, seen, raced, issued,
                   lastOutcome, lastExpiresIn, failStreak, sinceOutcome, firedAt,
                   expired>>
    /\ UNCHANGED <<reqVars, clockVars>>

\* getAdminAccessToken: the first check; the token is read and the read lock
\* released by the deferred RUnlock, or RUnlock and go for the write lock
LegacyFastCheck(p) ==
    /\ LegacyRunning
    /\ LegacyPc(p) = "check"
    /\ tokenMutex' = [tokenMutex EXCEPT !.readers = @ \ {p}]
    /\ IF LegacyUsable
          THEN LegacyReturns(p, adminToken[1].AccessToken)
          ELSE LegacySetPc(p, "lock") /\ UNCHANGED <<ret, timers, sinceOutcome, firedAt>>
    /\ UNCHANGED <<adminToken, tokenRefreshC, senders, seen, raced, issued,
                   lastOutcome, lastExpiresIn, failStreak, expired>>
    /\ UNCHANGED <<reqVars, clockVars>>

\* getAdminAccessToken: tokenMutex.Lock() is called
LegacyLockBegins(p) ==
    /\ LegacyRunning
    /\ LegacyPc(p) = "lock"
    /\ CanBeginLock
    /\ tokenMutex' = [tokenMutex EXCEPT !.pending = p]
    /\ UNCHANGED <<adminToken, tokenRefreshC, senders, timers, fpc, gpc, seen,
                   raced, ret, issued, lastOutcome, lastExpiresIn, failStreak,
                   sinceOutcome, firedAt, expired>>
    /\ UNCHANGED <<reqVars, clockVars>>

\* getAdminAccessToken: tokenMutex.Lock() returns; defer Unlock(); the second
\* check
LegacyLock(p) ==
    /\ LegacyRunning
    /\ LegacyPc(p) = "lock"
    /\ CanLock(p)
    /\ IF LegacyUsable
          THEN LegacyReturns(p, adminToken[1].AccessToken) /\ tokenMutex' = Unlocked
          ELSE /\ tokenMutex' = [tokenMutex EXCEPT !.writer = p, !.pending = NoProc]
               /\ LegacySetPc(p, "login")
               /\ UNCHANGED <<ret, timers, sinceOutcome, firedAt>>
    /\ UNCHANGED <<adminToken, tokenRefreshC, senders, seen, raced, issued,
                   lastOutcome, lastExpiresIn, failStreak, expired>>
    /\ UNCHANGED <<reqVars, clockVars>>

\* getAdminAccessToken: adminToken, err = LoginClient(...) with err != nil:
\* LoginClient's nil *JWT replaces whatever the cell held
LegacyLoginFails(p) ==
    /\ LegacyRunning
    /\ LegacyPc(p) = "login"
    /\ adminToken' = <<>>
    /\ expired' = FALSE
    /\ tokenMutex' = Unlocked
    /\ LegacyReturnsError(p)
    /\ UNCHANGED <<tokenRefreshC, senders, seen, raced, issued, lastOutcome,
                   lastExpiresIn, failStreak>>
    /\ UNCHANGED <<reqVars, clockVars>>

\* getAdminAccessToken: adminToken, err = LoginClient(...) with err == nil
LegacyLoginSucceeds(p, expiresInSeconds) ==
    /\ LegacyRunning
    /\ LegacyPc(p) = "login"
    /\ issued < MaxLogins
    /\ adminToken' = <<[AccessToken |-> issued + 1, ExpiresIn |-> expiresInSeconds]>>
    /\ expired' = FALSE
    /\ issued' = issued + 1
    /\ tokenMutex' = Unlocked
    /\ LegacyReturns(p, issued + 1)
    /\ UNCHANGED <<tokenRefreshC, senders, seen, raced, lastOutcome, lastExpiresIn,
                   failStreak>>
    /\ UNCHANGED <<reqVars, clockVars>>

\* startAdminTokenRefresher: expiresIn := adminToken.ExpiresIn - 30, read from
\* the cell without the lock; a nil cell is a nil pointer dereference, which
\* ends the process
LegacyRefresherSchedule ==
    /\ LegacyRunning
    /\ fpc = "schedule"
    /\ IF adminToken = <<>>
          THEN fpc' = "panic" /\ UNCHANGED <<timers, sinceOutcome, firedAt>>
          ELSE /\ timers' = AfterFunc(NextRefreshDuration(adminToken[1].ExpiresIn))
               /\ sinceOutcome' = 0
               /\ firedAt' = -1
               /\ fpc' = "recv"
    /\ UNCHANGED <<adminToken, tokenMutex, tokenRefreshC, senders, gpc, seen, raced,
                   ret, issued, lastOutcome, lastExpiresIn, failStreak, expired>>
    /\ UNCHANGED <<reqVars, clockVars>>

\* time passes the credential's validity: IsExpired() answers true from now on
LegacyCredentialExpires ==
    /\ LegacyRunning
    /\ adminToken # <<>>
    /\ ~expired
    /\ expired' = TRUE
    /\ UNCHANGED credVars
    /\ UNCHANGED <<reqVars, clockVars>>

\* timers and clock run as in Part II while the process is alive
LegacyTimerFires(i) == LegacyRunning /\ TimerFires(i)

LegacyTimerCallbackSends == LegacyRunning /\ TimerCallbackSends

LegacyTick == LegacyRunning /\ Tick

NextLegacy ==
    \/ LegacyRefresherReceive
    \/ \E p \in LegacyProcs : LegacyRLock(p)
    \/ \E p \in LegacyProcs : LegacyFastCheck(p)
    \/ \E p \in LegacyProcs : LegacyLockBegins(p)
    \/ \E p \in LegacyProcs : LegacyLock(p)
    \/ \E p \in LegacyProcs : LegacyLoginFails(p)
    \/ \E p \in LegacyProcs, e \in ExpiresInValues : LegacyLoginSucceeds(p, e)
    \/ LegacyRefresherSchedule
    \/ LegacyCredentialExpires
    \/ \E i \in 1..MaxTimers : LegacyTimerFires(i)
    \/ LegacyTimerCallbackSends
    \/ LegacyTick

SpecLegacy == Init /\ [][NextLegacy]_vars

(***************************************************************************)
(* Properties of the request pipeline (SpecRequest)                        *)
(***************************************************************************)
IntrospectionSaid(active) ==
    /\ introspected # <<>>
    /\ introspected[1].err = NoError
    /\ introspected[1].active = active

DecodeGaveClaims == decoded # <<>> /\ decoded[1].err = NoError

ProviderFailed ==
    \/ introspected # <<>> /\ introspected[1].err # NoError
    \/ decoded # <<>> /\ decoded[1].err # NoError

\* C1: when introspection reports active = false, ValidateAccessToken returns
\* the error the middleware answers with 401, without subject or roles;
\* DecodeAccessToken is not called for the request; the next handler is not
\* invoked.
InactiveTokenFailsClosed ==
    IntrospectionSaid(FALSE) =>
        /\ vres = [returned |-> TRUE, sub |-> "", roles |-> <<>>, err |-> ErrTokenNotActive]
        /\ decodeCalls = 0
        /\ decoded = <<>>
        /\ status = StatusUnauthorized
        /\ ~nextInvoked
        /\ ~handlerInvoked
        /\ ~ctx.set

InactiveTokenRejected ==
    /\ IntrospectionSaid(FALSE)
    /\ introspectCalls = 1
    /\ rpc = "done"
    /\ tokenString = <<"t", "1">>

\* the required-role list and the caller's role list share an element
RolesOverlap ==
    \E i \in 1..Len(requiredRoles), j \in 1..Len(ctx.roles) :
        requiredRoles[i] = ctx.roles[j]

\* RBACMiddleware has decided the request of an authenticated caller
RoleGateDecided ==
    /\ InAdminGroup(req.path)
    /\ nextInvoked
    /\ rpc # "rbac"

\* C6: RBACMiddleware invokes the next handler exactly when some required
\* role equals some role of the caller; otherwise it answers 403 and the next
\* handler is not invoked.
RoleGateOrSemantics ==
    RoleGateDecided =>
        /\ (rpc = "handler" \/ handlerInvoked) <=> RolesOverlap
        /\ ~RolesOverlap => (status = StatusForbidden /\ rpc \in {"done", "idle"})

RoleGateGrantsViewerAdmin ==
    /\ RoleGateDecided
    /\ requiredRoles = <<"admin">>
    /\ ctx.roles = <<"viewer", "admin">>
    /\ handlerInvoked

\* the decoded claims carry a string sub
SubIsString == DecodeGaveClaims /\ decoded[1].claims.sub.t = "string"

\* the decoded claims carry no realm_access map with a roles list
NoRolesList ==
    /\ DecodeGaveClaims
    /\ \/ decoded[1].claims.realm_access.t # "map"
       \/ decoded[1].claims.realm_access.v[1].roles.t # "list"

\* C7: with an active token and a string sub, claims without realm_access, or
\* without a roles list in it, or with either of the wrong shape, validate
\* successfully with an empty role set.
EmptyRolesIsValid ==
    (IntrospectionSaid(TRUE) /\ SubIsString /\ NoRolesList) =>
        /\ vres = [returned |-> TRUE, sub |-> decoded[1].claims.sub.v[1],
                   roles |-> <<>>, err |-> NoError]
        /\ ctx = [set |-> TRUE, userID |-> decoded[1].claims.sub.v[1], roles |-> <<>>]
        /\ nextInvoked

NoRealmAccessAccepted ==
    /\ IntrospectionSaid(TRUE)
    /\ SubIsString
    /\ decoded[1].claims.realm_access = Absent
    /\ vres.returned

\* C8: an active token whose decoded claims lack a string sub is answered
\* with 401, not with a server error, and the handler is not invoked.
MalformedClaimsAnswered401 ==
    (IntrospectionSaid(TRUE) /\ DecodeGaveClaims /\ ~SubIsString) =>
        /\ vres.returned /\ vres.err # NoError
        /\ status = StatusUnauthorized
        /\ ~nextInvoked
        /\ ~handlerInvoked

\* C9: a provider or network error of introspection or decode is answered
\* with 500 and never with 401; an inactive token and malformed claims are
\* answered with 401 and never with 500.
ErrorClassesNeverConflated ==
    /\ ProviderFailed => status = StatusInternalServerError
    /\ IntrospectionSaid(FALSE) => status = StatusUnauthorized
    /\ (IntrospectionSaid(TRUE) /\ DecodeGaveClaims /\ ~SubIsString) =>
            status = StatusUnauthorized

\* the header is BearerPrefix followed by some token
StartsWithBearer(h) ==
    \E k \in 0..Len(h) : h = BearerPrefix \o SubSeq(h, k + 1, Len(h))

\* C10: an /api request without an Authorization header, or with one that
\* does not start with "Bearer ", is answered with 401; neither introspection
\* nor decode is called for it and the next handler is not invoked.
MissingBearerRejected ==
    (InApiGroup(req.path) /\ ~StartsWithBearer(req.authHeader)) =>
        /\ status = StatusUnauthorized
        /\ introspectCalls = 0
        /\ decodeCalls = 0
        /\ introspected = <<>> /\ decoded = <<>>
        /\ ~nextInvoked
        /\ ~handlerInvoked

NonBearerHeaderRejected ==
    /\ InApiGroup(req.path)
    /\ req.authHeader = <<"b", "e", "a", "r", "e", "r", " ", "t", "1">>
    /\ rpc = "done"


(***************************************************************************)
(* Properties of the credential lifecycle (Spec)                           *)
(***************************************************************************)
\* C2: every getAdminAccessToken call that returns without error returns the
\* access token of a credential written by a login that had finished
\* successfully, never a value of a failed or unfinished login.
ReadsReturnCompletedCredential ==
    \A c \in Callers :
        (ret[c].returned /\ ret[c].err = "nil") => ret[c].tok \in 1..issued

\* renewal triggers outstanding: a buffered signal, a callback about to send,
\* an armed timer, or the refresher inside an iteration
PendingTriggers ==
    tokenRefreshC + senders + Len(timers) + (IF fpc # "recv" THEN 1 ELSE 0)

\* C3: after every failed login of the refresher, however many in a row,
\* exactly one further renewal attempt is outstanding, and the timer that
\* triggers it fires exactly 10 seconds after the failure.
RetryNeverStops ==
    lastOutcome = "fail" =>
        /\ PendingTriggers = 1
        /\ firedAt = -1 =>
              /\ Len(timers) = 1
              /\ sinceOutcome <= 10
              /\ timers[1] = Mul64(Int64(10 - sinceOutcome), Second)
        /\ firedAt # -1 => firedAt = 10

RetryAfterRepeatedFailures ==
    /\ lastOutcome = "fail"
    /\ failStreak = MaxFailStreak
    /\ firedAt = 10
    /\ fpc = "login"

\* C4: after a successful login of the refresher reporting E, the next
\* trigger fires max(E - 30, 1) seconds later: between E - 30 and E - 29
\* seconds after the success, and after exactly 1 second when E <= 31.
RenewalDelayIsExpiryMinusMargin ==
    (lastOutcome = "ok" /\ firedAt # -1) =>
        IF Less64(lastExpiresIn, Int64(32))
            THEN firedAt = 1
            ELSE /\ ~Less64(Int64(firedAt), Sub64(lastExpiresIn, Int64(30)))
                 /\ ~Less64(Sub64(lastExpiresIn, Int64(29)), Int64(firedAt))

\* the same, for the reported validities whose delay fits a time.Duration
RenewalDelayWithinDuration ==
    (lastOutcome = "ok" /\ firedAt # -1 /\ lastExpiresIn # TwoTo34) =>
        IF Less64(lastExpiresIn, Int64(32))
            THEN firedAt = 1
            ELSE Int64(firedAt) = Sub64(lastExpiresIn, Int64(30))


\* a login attempt ends in failure: a caller leaves its login with the error,
\* or the refresher leaves its login without a new token having been issued
FailedLoginStep ==
    \/ \E c \in Callers :
          gpc[c] = "login" /\ gpc'[c] = "idle" /\ ret'[c].err = "login failed"
    \/ fpc = "login" /\ fpc' = "recv" /\ issued' = issued

\* C5: a failed login, in the refresher or in getAdminAccessToken, leaves in
\* the cell exactly the credential, or none, that it held before the attempt.
FailedLoginKeepsCredential == [][FailedLoginStep => adminToken' = adminToken]_vars

\* a step in which the identity provider's login operation is in use by a
\* request-serving goroutine, or the cell is written by one
LoginOrWriteByCaller ==
    \/ \E c \in Callers : gpc'[c] = "login"
    \/ adminToken' # adminToken /\ fpc # "login"
    \/ issued' # issued /\ fpc # "login"

\* C11: startAdminTokenRefresher is the only process that calls the login
\* operation and the only one that writes the cell; no goroutine serving a
\* request ever stands in a login call or changes the cell.
SingleWriterSingleLoginCaller == [][~LoginOrWriteByCaller]_vars

\* C12: while the cell holds no credential and no login has succeeded,
\* ValidateAccessToken calls neither introspection nor decode and validates
\* no caller token.
ValidationNeedsCredential ==
    (adminToken = <<>> /\ issued = 0) =>
        /\ introspectCalls = 0
        /\ decodeCalls = 0
        /\ introspected = <<>>
        /\ ~(vres.returned /\ vres.err = NoError)
        /\ ~nextInvoked

\* C14: while a credential exists, a getAdminAccessToken call can take the
\* shared lock and return the token even when the refresher's login call is
\* in progress.
FastPathNeverWaitsForLogin ==
    (adminToken # <<>> /\ fpc = "login") => CanRLock

\* C15: a getAdminAccessToken call that returns a token returns the token the
\* cell held when the call took the shared lock (the last write completed
\* before the read started) or the token of a later write, never an earlier
\* one.  Tokens are numbered in the order of the logins that issued them.
ReadAfterWriteVisibility ==
    \A c \in Callers :
        (ret[c].returned /\ ret[c].err = "nil") => ret[c].tok >= seen[c]

\* C18: every read of the cell is made with the shared or the exclusive lock
\* held, the dereference of the fast path included, and every write with the
\* exclusive lock held; no process reads or writes the cell while another
\* writes it.
LockDiscipline ==
    /\ \A c \in Callers :
          /\ gpc[c] \in {"check", "deref"} =>
                (c \in tokenMutex.readers \/ tokenMutex.writer = c)
          /\ gpc[c] = "login" => tokenMutex.writer = c
          /\ gpc[c] = "deref" => tokenMutex.writer = NoProc
    /\ fpc = "login" => tokenMutex.writer = Refresher

InLogin(pcOfRefresher, pcOfCallers) ==
    {c \in Callers : pcOfCallers[c] = "login"}
        \cup (IF pcOfRefresher = "login" THEN {Refresher} ELSE {})

\* C19: callers that found the cell empty take the exclusive path one at a
\* time; a caller stands in a login only while the cell is empty; a caller
\* that finds the cell populated at its second check returns the cell's token
\* without a login; and every successful login of a caller starts from an
\* empty cell and populates it, so at most one succeeds per empty episode.
DoubleCheckedPopulation ==
    [][ /\ Cardinality(InLogin(fpc', gpc')) <= 1
        /\ \A c \in Callers :
              /\ gpc'[c] = "login" => (adminToken = <<>> /\ adminToken' = <<>>)
              /\ (gpc[c] = "lock" /\ gpc'[c] # "lock" /\ adminToken # <<>>) =>
                    /\ gpc'[c] = "idle"
                    /\ ret'[c] = Returns(adminToken[1].AccessToken)
                    /\ issued' = issued
                    /\ adminToken' = adminToken
              /\ (gpc[c] = "login" /\ issued' # issued) =>
                    (adminToken = <<>> /\ adminToken' # <<>>)
        /\ adminToken # <<>> => adminToken' # <<>>
      ]_vars

SecondCallerFindsCellPopulated ==
    /\ gpc[2] = "lock"
    /\ adminToken # <<>>
    /\ ret[1] = Returns(adminToken[1].AccessToken)
    /\ lastOutcome = "none"
    /\ issued = 1

IsStringElem(e) == e.t = "string"

\* the string elements of claims.realm_access.roles, in the order of the
\* claims; none when realm_access is no map or roles no list
StringRolesOfClaims(claims) ==
    IF claims.realm_access.t = "map" /\ claims.realm_access.v[1].roles.t = "list"
        THEN LET strs == SelectSeq(claims.realm_access.v[1].roles.v, IsStringElem)
             IN  [i \in 1..Len(strs) |-> strs[i].v[1]]
        ELSE <<>>

\* C16: decode is called only after introspection has answered active; with
\* an active token and claims with a string sub, ValidateAccessToken returns
\* exactly claims.sub and the string elements of claims.realm_access.roles, no
\* role added and none dropped.
ValidationReturnsClaimsIdentity ==
    /\ (decodeCalls > 0 \/ decoded # <<>>) =>
            (introspectCalls = 1 /\ IntrospectionSaid(TRUE))
    /\ (IntrospectionSaid(TRUE) /\ SubIsString) =>
          /\ vres = [returned |-> TRUE,
                     sub |-> decoded[1].claims.sub.v[1],
                     roles |-> StringRolesOfClaims(decoded[1].claims),
                     err |-> NoError]
          /\ {vres.roles[i] : i \in 1..Len(vres.roles)} \subseteq RoleNames
          /\ decodeCalls = 1

AdminViewerIdentityReturned ==
    /\ IntrospectionSaid(TRUE)
    /\ DecodeGaveClaims
    /\ decoded[1].claims =
          [sub |-> Str("u1"),
           realm_access |-> Map([roles |-> List(<<Str("admin"), Str("viewer")>>)])]
    /\ vres.sub = "u1"
    /\ vres.roles = <<"admin", "viewer">>

\* no caller has ever called getAdminAccessToken
NoCallerAsked == \A c \in Callers : gpc[c] = "idle" /\ ret[c] = NoReturn

\* C17: when InitKeycloak has returned exactly one signal is buffered and
\* nothing else is pending; the refresher eventually makes a first login
\* attempt whether or not a request ever arrives; and a successful login of
\* the refresher populates the cell, whatever the callers have done.
InitialKick ==
    /\ (tokenRefreshC = 1 /\ senders = 0 /\ timers = <<>> /\ fpc = "recv")
    /\ <>(fpc = "login")
    /\ [][(fpc = "login" /\ lastOutcome' = "ok" /\ fpc' = "recv") =>
              (adminToken' # <<>> /\ gpc' = gpc /\ ret' = ret)]_vars

PopulatedWithoutAnyCaller ==
    /\ adminToken # <<>>
    /\ lastOutcome = "ok"
    /\ issued = 1
    /\ NoCallerAsked

\* a step in which the validation of the request fails with the error of its
\* cancelled context
CancelStep ==
    /\ vres.err # ErrContextCanceled
    /\ vres'.err = ErrContextCanceled

\* C20: the cancellation of a request ends the introspection or decode call
\* in flight for that request and fails its validation, and the next request
\* starts afresh; the step changes nothing of the refresher (a login in
\* progress stays in progress, its outcome is not decided), nothing of the
\* cell, and neither removes nor changes an armed timer, a callback about to
\* send or the buffered trigger.
CancellationIsScoped ==
    [][ /\ CancelStep =>
              /\ rpc \in {"introspect", "decode"}
              /\ rpc' = "done"
              /\ vres'.returned /\ vres'.roles = <<>> /\ vres'.sub = ""
              /\ status' = StatusInternalServerError
              /\ ~nextInvoked' /\ ~handlerInvoked'
              /\ adminToken' = adminToken
              /\ issued' = issued
              /\ fpc' = fpc
              /\ tokenMutex' = tokenMutex
              /\ lastOutcome' = lastOutcome /\ failStreak' = failStreak
              /\ timers' = timers
              /\ senders' = senders
              /\ tokenRefreshC' = tokenRefreshC
        /\ (rpc = "idle" /\ rpc' # "idle") =>
              (vres' = NoResult /\ introspected' = <<>> /\ decoded' = <<>>)
      ]_vars

RequestCancelledDuringRenewal ==
    /\ vres.err = ErrContextCanceled
    /\ rpc = "done"
    /\ decoded # <<>>
    /\ fpc = "login"
    /\ adminToken # <<>>

\* the role list extracted from the decoded claims holds the string "admin"
ClaimsCarryAdmin ==
    /\ DecodeGaveClaims
    /\ \E i \in 1..Len(StringRolesOfClaims(decoded[1].claims)) :
          StringRolesOfClaims(decoded[1].claims)[i] = "admin"

\* C25: with main's wiring, a request under /api/admin reaches its handler
\* only if its Authorization header starts with "Bearer ", introspection
\* answered active, the decoded claims carry a string sub and the extracted
\* roles contain "admin"; a caller with no role never reaches it.
AdminRoutesNeedAdminRole ==
    (/\ requiredRoles = MainRequiredRoles
     /\ InAdminGroup(req.path)
     /\ (handlerInvoked \/ rpc = "handler")) =>
        /\ StartsWithBearer(req.authHeader)
        /\ IntrospectionSaid(TRUE)
        /\ SubIsString
        /\ ClaimsCarryAdmin
        /\ ctx.roles # <<>>

AdminReachesUsersHandler ==
    /\ requiredRoles = MainRequiredRoles
    /\ req.path = <<"api", "admin", "users">>
    /\ handlerInvoked
    /\ status = StatusOK
    /\ ctx.roles = <<"admin">>

\* the role gate has nothing to grant on: no role list stored, an empty one
\* stored, or no role required
NothingToGrantOn == ~ctx.set \/ ctx.roles = <<>> \/ requiredRoles = <<>>

IterationEnds == fpc = "login" /\ fpc' = "recv"

\* a step of a getAdminAccessToken call that enters or leaves its fallback
\* login
FallbackLoginStep ==
    \E c \in Callers : gpc'[c] # gpc[c] /\ (gpc[c] = "login" \/ gpc'[c] = "login")

\* C22: at every moment exactly one renewal trigger exists: one buffered
\* signal, or the refresher inside an iteration, or one armed timer (a timer
\* counts until its callback has sent).  An iteration consumes one signal and
\* arms exactly one timer whether its login fails or succeeds, and a fallback
\* login of getAdminAccessToken adds and removes no trigger.
SingleRenewalTrigger ==
    /\ [](/\ PendingTriggers = 1
          /\ tokenRefreshC <= 1
          /\ Len(timers) + senders <= 1)
    /\ [][(fpc = "recv" /\ fpc' # "recv") => tokenRefreshC' = tokenRefreshC - 1]_vars
    /\ [][IterationEnds =>
              /\ Len(timers') = Len(timers) + 1
              /\ tokenRefreshC' = tokenRefreshC
              /\ senders' = senders]_vars
    /\ [][FallbackLoginStep =>
              UNCHANGED <<tokenRefreshC, senders, timers, fpc>>]_vars

FallbackLoginBesideOneTrigger ==
    /\ lastOutcome = "none"
    /\ issued = 1
    /\ fpc = "lock"
    /\ \E c \in Callers : ret[c] = Returns(1) /\ gpc[c] = "idle"

\* C23: once the cell holds a credential it holds one ever after, and from
\* then on no getAdminAccessToken call returns an error or stands in a
\* fallback login.
StoreIsMonotone ==
    /\ [](issued > 0 =>
            /\ adminToken # <<>>
            /\ \A c \in Callers : gpc[c] # "login")
    /\ [][adminToken # <<>> =>
            /\ adminToken' # <<>>
            /\ \A c \in Callers :
                  (ret'[c] # ret[c] /\ ret'[c].returned) => ret'[c].err = "nil"]_vars

CallerServedAfterFailedRenewal ==
    /\ lastOutcome = "fail"
    /\ issued = 1
    /\ adminToken # <<>>
    /\ sinceOutcome > 0
    /\ \E c \in Callers : gpc[c] = "deref" /\ seen[c] = 1

\* C24: the lock is held only by a process that stands between its Lock or
\* RLock and the matching release: a writer only inside its login, a reader
\* only at its check, an announced Lock() only by a process waiting for it.
\* Under fair scheduling a held lock is released, every getAdminAccessToken
\* call returns, and every signal received by the refresher leads to the end
\* of the iteration with the next timer armed.
NoLockLeak ==
    /\ [](/\ tokenMutex.writer = Refresher => fpc = "login"
          /\ tokenMutex.pending = Refresher => fpc = "lock"
          /\ \A c \in Callers :
                /\ tokenMutex.writer = c => gpc[c] = "login"
                /\ tokenMutex.pending = c => gpc[c] = "lock"
                /\ c \in tokenMutex.readers => gpc[c] = "check")
    /\ (tokenMutex.writer # NoProc) ~> (tokenMutex.writer = NoProc)
    /\ \A c \in Callers : (gpc[c] # "idle") ~> (gpc[c] = "idle" /\ ret[c].returned)
    /\ (fpc = "lock") ~> (fpc = "recv" /\ Len(timers) = 1)

LockReleasedAfterFailedLogins ==
    /\ tokenMutex = Unlocked
    /\ lastOutcome = "fail"
    /\ fpc = "recv"
    /\ \E c \in Callers : ret[c] = ReturnsError("login failed") /\ gpc[c] = "idle"

\* the credential in the cell has not reached the end of its validity
StoreUnexpired ==
    adminToken # <<>> =>
        Less64(Int64(minted[adminToken[1].AccessToken].age),
               minted[adminToken[1].AccessToken].validity)

\* the value is the access token of an issued credential that has not
\* reached the end of its validity
UnexpiredToken(tok, tokens) ==
    /\ tok \in 1..Len(tokens)
    /\ Less64(Int64(tokens[tok].age), tokens[tok].validity)

\* the store part of C21: with every login succeeding within its timeout and
\* every validity above 40 seconds, the credential in the cell is unexpired
\* at every instant
StoreStaysUnexpired == [](StoreUnexpired)

\* C21: with every login succeeding within its 10 second timeout and every
\* reported validity above 40 seconds, the credential in the cell is
\* unexpired at every instant from the first successful login on, and every
\* value a getAdminAccessToken call returns is, when it is returned, the
\* access token of an unexpired credential.
ContinuousValidity ==
    /\ [](StoreUnexpired)
    /\ [][\A c \in Callers :
            (ret'[c] # ret[c] /\ ret'[c].returned /\ ret'[c].err = "nil") =>
                UnexpiredToken(ret'[c].tok, minted')]_vars

\* a credential was renewed in time: the second token is in the cell and the
\* first, replaced, was still valid when the renewal's login returned
RenewedBeforeExpiry ==
    /\ issued = 2
    /\ lastOutcome = "ok"
    /\ sinceOutcome = 0
    /\ Len(minted) = 2
    /\ minted[1].validity = Int64(41)
    /\ minted[1].age = 31
    /\ adminToken[1].AccessToken = 2

====
